---- MODULE Spec2Model ----
(***************************************************************************)
(* DeeJay: the latency-compensated time-stretch / pitch processor.         *)
(*                                                                         *)
(* Two objects are modelled:                                               *)
(*   - deejay::TimeStretchPitchProcessor (TimeStretchPitchProcessor.cpp),  *)
(*     in both of its builds: the passthrough build and the build with     *)
(*     DEEJAY_HAVE_RUBBERBAND, where it owns a RubberBandAdapter;          *)
(*   - deejay::LatencyCompensatedProcessor, which wraps one.               *)
(*                                                                         *)
(* Spec    drives a LatencyCompensatedProcessor through its public API.    *)
(* SpecTSP drives a stand-alone TimeStretchPitchProcessor.                 *)
(*                                                                         *)
(* Numbers: double and float values are kept in thousandths (1000 = 1.0),  *)
(* pitch in whole semitones, sample rates in Hz, audio samples as small    *)
(* integers (0 is the 0.0f sample).                                        *)
(***************************************************************************)
EXTENDS Integers, Sequences, FiniteSets, TLC

VARIABLES
    haveRubberband,          \* the build: DEEJAY_HAVE_RUBBERBAND defined or not
    getLatency,              \* RubberBandStretcher::getLatency as a function of its configuration
    processor_,              \* the TimeStretchPitchProcessor (the wrapped one under Spec)
    controls_,               \* LatencyCompensatedProcessor::controls_
    pendingLatencySamples_,  \* LatencyCompensatedProcessor::pendingLatencySamples_
    channelCount_,           \* LatencyCompensatedProcessor::channelCount_
    call,                    \* the last call made: its arguments and its result
    history                  \* what the calls so far have emitted (observation only)

vars == <<haveRubberband, getLatency, processor_, controls_, pendingLatencySamples_,
          channelCount_, call, history>>

----------------------------------------------------------------------------
(* Bounds of the model *)

MaxFrames == 2

MaxAvailable == 2

MaxUpdates == 2

(* Values the calls are tried with *)

\* sample rates in Hz given to the constructor
SampleRates == {0, 100}

\* channel counts given to the constructor
ChannelCounts == {0, 1, 2}

\* the Controls values updateControls is called with: tempo in thousandths (1.0 is
\* the default, 3.0 lies beyond the slider's 2.5), pitch in semitones (-13 lies
\* below the slider's -12), manual latency negative, zero and positive
Controls ==
    { [tempoRatio |-> 1000, pitchSemitones |-> 0,   manualLatencySamples |-> 0],
      [tempoRatio |-> 3000, pitchSemitones |-> 0,   manualLatencySamples |-> 3],
      [tempoRatio |-> 1000, pitchSemitones |-> -13, manualLatencySamples |-> -1] }

\* what the caller's output vector holds when it is handed to processBlock:
\* samples left from an earlier use
CallerVectors == {<<9, 9, 9>>}

\* latencies a RubberBandStretcher may report, in frames
EngineLatencies == {0, 1}

----------------------------------------------------------------------------
(* Helpers *)

Min(a, b) == IF a <= b THEN a ELSE b

Max(a, b) == IF a >= b THEN a ELSE b

Zeros(n) == [i \in 1..n |-> 0]

\* the input blocks tried, of n samples: silence, and a block whose samples all
\* differ (sample i holds i)
InputBlocks(n) == {Zeros(n), [i \in 1..n |-> i]}

\* the audio a stretcher is taken to hand out, per channel, `available` frames of
\* it: silence, and audio in which frame f of channel c (both 1-based) holds 10*c + f
StretcherAudio(available, channels) ==
    { [c \in 1..channels |-> Zeros(available)],
      [c \in 1..channels |-> [f \in 1..available |-> 10 * c + f]] }

----------------------------------------------------------------------------
(* TimeStretchPitchProcessor.h *)

\* StretchQuality{}: formantPreservation 0.5f, transientSensitivity 0.5f, highQuality true
DefaultQuality ==
    [formantPreservation |-> 500, transientSensitivity |-> 500, highQuality |-> TRUE]

\* Parameters{}: tempoRatio 1.0, pitchSemitones 0.0, quality {}
DefaultParameters ==
    [tempoRatio |-> 1000, pitchSemitones |-> 0, quality |-> DefaultQuality]

\* Controls{}: tempoRatio 1.0, pitchSemitones 0.0, manualLatencySamples 0
DefaultControls ==
    [tempoRatio |-> 1000, pitchSemitones |-> 0, manualLatencySamples |-> 0]

\* std::unique_ptr<RubberBandAdapter> holding nothing
NoAdapter == [none |-> TRUE]

----------------------------------------------------------------------------
(* TimeStretchPitchProcessor.cpp *)

\* semitonesToRatio: 2^(semitones/12), in thousandths
semitonesToRatio(semitones) ==
    CASE semitones = 0   -> 1000
      [] semitones = -13 -> 472
      [] semitones = 12  -> 2000
      [] semitones = -12 -> 500

\* RubberBandAdapter's constructor: the option flags chosen from the quality
\* settings (OptionPitchHighQuality is always set; OptionPitchHighSpeed is or-ed in)
adapterOptions(parameters) ==
    {"ProcessRealTime", "PitchHighQuality", "ThreadingAuto"}
    \cup (IF ~parameters.quality.highQuality THEN {"PitchHighSpeed"} ELSE {})
    \cup (IF parameters.quality.transientSensitivity > 600 THEN {"TransientsSmooth"} ELSE {})
    \cup (IF parameters.quality.formantPreservation > 600 THEN {"FormantPreserved"} ELSE {})

\* RubberBandAdapter::setParameters
adapterSetParameters(adapter, parameters) ==
    [adapter EXCEPT
        !.parameters_ = parameters,
        !.stretcher.pitchScale = semitonesToRatio(parameters.pitchSemitones),
        !.stretcher.timeRatio = parameters.tempoRatio]

\* RubberBandAdapter::RubberBandAdapter: a new stretcher, then setParameters
newAdapter(sampleRate, channelCount, parameters) ==
    adapterSetParameters(
        [channelCount_ |-> channelCount,
         parameters_   |-> DefaultParameters,
         stretcher     |-> [sampleRate |-> sampleRate,
                            channels   |-> channelCount,
                            options    |-> adapterOptions(parameters),
                            pitchScale |-> 1000,
                            timeRatio  |-> 1000,
                            inFlight   |-> FALSE]],
        parameters)

\* RubberBandAdapter::latency
adapterLatency(adapter) ==
    getLatency[<<adapter.stretcher.timeRatio, adapter.stretcher.pitchScale>>]

\* TimeStretchPitchProcessor::configureProcessor; `engines` counts the engines
\* made so far, so that a replaced engine can be told from the first one
configureProcessor(p) ==
    IF haveRubberband
    THEN [p EXCEPT !.processor_ =
              newAdapter(p.sampleRate_, p.channelCount_, p.parameters_),
                   !.engines = @ + 1]
    ELSE [p EXCEPT !.simulatedLatencySamples_ = p.sampleRate_ \div 100,
                   !.engines = @ + 1]

\* TimeStretchPitchProcessor::TimeStretchPitchProcessor
newTimeStretchPitchProcessor(sampleRate, channelCount, defaults) ==
    configureProcessor(
        [sampleRate_              |-> sampleRate,
         channelCount_            |-> channelCount,
         parameters_              |-> defaults,
         simulatedLatencySamples_ |-> 0,
         processor_               |-> NoAdapter,
         engines                  |-> 0])

\* setParameters making a new engine for the new parameters on every call
setParameters_rebuilds(p, parameters) ==
    configureProcessor([p EXCEPT !.parameters_ = parameters])

\* setParameters with a simulated latency that follows the tempo ratio
setParameters_latencyFollowsTempo(p, parameters) ==
    LET q == [p EXCEPT !.parameters_ = parameters]
    IN  IF haveRubberband
        THEN IF q.processor_ # NoAdapter
             THEN [q EXCEPT !.processor_ = adapterSetParameters(q.processor_, q.parameters_)]
             ELSE q
        ELSE [q EXCEPT !.simulatedLatencySamples_ =
                           (q.sampleRate_ * parameters.tempoRatio) \div 100000]

\* TimeStretchPitchProcessor::setParameters
setParameters(p, parameters) ==
    LET q == [p EXCEPT !.parameters_ = parameters]
    IN  IF haveRubberband
        THEN IF q.processor_ # NoAdapter
             THEN [q EXCEPT !.processor_ = adapterSetParameters(q.processor_, q.parameters_)]
             ELSE q
        ELSE [q EXCEPT !.simulatedLatencySamples_ = q.sampleRate_ \div 100]

\* TimeStretchPitchProcessor::getLatencySamples
getLatencySamples(p) ==
    IF haveRubberband
    THEN IF p.processor_ # NoAdapter THEN adapterLatency(p.processor_) ELSE 0
    ELSE p.simulatedLatencySamples_

\* TimeStretchPitchProcessor::getParameters
getParameters(p) == p.parameters_

\* TimeStretchPitchProcessor::describeEndpoints
describeEndpoints(p) ==
    << [id |-> "tempo", label |-> "Tempo Ratio", minimum |-> 500, maximum |-> 2500,
        defaultValue |-> p.parameters_.tempoRatio, integer |-> FALSE],
       [id |-> "pitch", label |-> "Pitch (semitones)", minimum |-> -12, maximum |-> 12,
        defaultValue |-> p.parameters_.pitchSemitones, integer |-> FALSE],
       [id |-> "formant", label |-> "Formant Preservation", minimum |-> 0, maximum |-> 1000,
        defaultValue |-> p.parameters_.quality.formantPreservation, integer |-> FALSE],
       [id |-> "transient", label |-> "Transient Sensitivity", minimum |-> 0, maximum |-> 1000,
        defaultValue |-> p.parameters_.quality.transientSensitivity, integer |-> FALSE] >>

\* the passthrough process using up the simulated latency as it copies
passthroughProcess_dropsLatency(p, input, frames) ==
    [ret |-> frames, output |-> SubSeq(input, 1, frames * p.channelCount_),
     processor |-> [p EXCEPT !.simulatedLatencySamples_ = 0],
     fed |-> <<>>, retrieved |-> <<>>]

\* the passthrough process copying `frames` samples, the channel count forgotten
passthroughProcess_framesOnly(p, input, frames) ==
    [ret |-> frames, output |-> SubSeq(input, 1, Min(frames, Len(input))),
     processor |-> p, fed |-> <<>>, retrieved |-> <<>>]

\* the passthrough TimeStretchPitchProcessor::process:
\* samples = frames * channelCount_; output.assign(input, input + samples); return frames
passthroughProcess(p, input, frames) ==
    LET samples == frames * p.channelCount_
    IN  [ret |-> frames, output |-> SubSeq(input, 1, samples), processor |-> p,
         fed |-> <<>>, retrieved |-> <<>>]

\* RubberBandAdapter::process, the pointer handed to the stretcher for channel ch
\* (0-based): channels[ch] = input + ch * frames, read for `frames` samples
channelPointer(input, frames, ch) ==
    SubSeq(input, ch * frames + 1, ch * frames + frames)

\* RubberBandAdapter::process, where the stretcher's retrieve writes: channel ch
\* (0-based) at output.data() + ch * available, for `available` samples
retrieveInto(retrieved, available, channelCount) ==
    [i \in 1..(available * channelCount) |->
        retrieved[((i - 1) \div available) + 1][((i - 1) % available) + 1]]

\* RubberBandAdapter::process: every result the stretcher can give. The stretcher
\* decides how many frames are available and what they hold.
adapterProcess(p, input, frames) ==
    LET a == p.processor_
        n == a.channelCount_
    IN  UNION { { [ret       |-> available,
                   output    |-> retrieveInto(retrieved, available, n),
                   processor |-> [p EXCEPT !.processor_.stretcher.inFlight = @ \/ frames > 0],
                   fed       |-> [c \in 1..n |-> channelPointer(input, frames, c - 1)],
                   retrieved |-> retrieved] :
                     retrieved \in StretcherAudio(available, n) } :
                available \in 0..MaxAvailable }

\* TimeStretchPitchProcessor::process: the set of its possible results
process(p, input, frames) ==
    IF haveRubberband
    THEN adapterProcess(IF p.processor_ = NoAdapter THEN configureProcessor(p) ELSE p,
                        input, frames)
    ELSE {passthroughProcess(p, input, frames)}

\* TimeStretchPitchProcessor::reset
reset(p) ==
    IF haveRubberband /\ p.processor_ # NoAdapter
    THEN [p EXCEPT !.processor_.stretcher.inFlight = FALSE]
    ELSE p

----------------------------------------------------------------------------
(* LatencyCompensatedProcessor.cpp *)

\* totalLatencySamples without the clamp of a negative manual latency
totalLatencySamples_unclamped(p, controls) ==
    getLatencySamples(p) + controls.manualLatencySamples

\* LatencyCompensatedProcessor::totalLatencySamples
totalLatencySamples(p, controls) ==
    getLatencySamples(p) + Max(0, controls.manualLatencySamples)

\* refreshPendingLatency adding to the pending count instead of replacing it
refreshPendingLatency_accumulates(pending, p, controls) ==
    pending + totalLatencySamples(p, controls)

\* LatencyCompensatedProcessor::refreshPendingLatency: the new pending count
refreshPendingLatency(pending, p, controls) ==
    totalLatencySamples(p, controls)

\* LatencyCompensatedProcessor::currentControls
currentControls(controls) == controls

\* the Controls brought into the ranges of the endpoints before they are stored
storeControls_clamped(controls) ==
    [controls EXCEPT !.manualLatencySamples = Max(0, Min(4096, @)),
                     !.tempoRatio = Max(500, Min(2500, @)),
                     !.pitchSemitones = Max(-12, Min(12, @))]

\* updateControls: controls_ = controls
storeControls(controls) == controls

\* updateControls recomputing the pending count before the engine is reconfigured
updateControls_refreshFirst(p, pending, controls) ==
    LET stored == storeControls(controls)
        q      == setParameters(p, [tempoRatio     |-> controls.tempoRatio,
                                    pitchSemitones |-> controls.pitchSemitones,
                                    quality        |-> DefaultQuality])
    IN  [controls  |-> stored,
         processor |-> q,
         pending   |-> refreshPendingLatency(pending, p, stored)]

\* LatencyCompensatedProcessor::updateControls: the stored Controls, the processor
\* and the pending count it leaves
updateControls(p, pending, controls) ==
    LET stored == storeControls(controls)
        q      == setParameters(p, [tempoRatio     |-> controls.tempoRatio,
                                    pitchSemitones |-> controls.pitchSemitones,
                                    quality        |-> DefaultQuality])
    IN  [controls  |-> stored,
         processor |-> q,
         pending   |-> refreshPendingLatency(pending, q, stored)]

\* controlEndpoints reporting the defaults of Controls{} instead of the stored values
controlEndpoints_fixedDefaults(controls) ==
    << [id |-> "tempo", label |-> "Tempo", type |-> "slider", minimum |-> 500,
        maximum |-> 2500, defaultValue |-> DefaultControls.tempoRatio],
       [id |-> "pitch", label |-> "Pitch", type |-> "slider", minimum |-> -12,
        maximum |-> 12, defaultValue |-> DefaultControls.pitchSemitones],
       [id |-> "manualLatency", label |-> "Manual Latency", type |-> "numeric",
        minimum |-> 0, maximum |-> 4096,
        defaultValue |-> DefaultControls.manualLatencySamples] >>

\* LatencyCompensatedProcessor::controlEndpoints
controlEndpoints(controls) ==
    << [id |-> "tempo", label |-> "Tempo", type |-> "slider", minimum |-> 500,
        maximum |-> 2500, defaultValue |-> controls.tempoRatio],
       [id |-> "pitch", label |-> "Pitch", type |-> "slider", minimum |-> -12,
        maximum |-> 12, defaultValue |-> controls.pitchSemitones],
       [id |-> "manualLatency", label |-> "Manual Latency", type |-> "numeric",
        minimum |-> 0, maximum |-> 4096,
        defaultValue |-> controls.manualLatencySamples] >>

\* reserve in place of resize: the vector never grows
resize_reservesOnly(v, n) ==
    IF n <= Len(v) THEN SubSeq(v, 1, n) ELSE v

\* std::vector<float>::resize(n, 0.0f)
resize(v, n) ==
    IF n <= Len(v) THEN SubSeq(v, 1, n) ELSE v \o Zeros(n - Len(v))

\* processBlock: output.clear()
clearOutput(out) == <<>>

\* the leading pad sized by the produced samples alone, the pending count ignored
leadingPad_uncapped(pending, produced, channelCount) ==
    produced * channelCount

\* processBlock: pendingSamples = min(pendingLatencySamples_, produced * samplesPerFrame)
leadingPad(pending, produced, channelCount) ==
    Min(pending, produced * channelCount)

\* the leading pad written without taking it off the pending count
prependPad_noDecrement(out, pending, pendingSamples) ==
    IF pendingSamples > 0
    THEN [output |-> out \o Zeros(pendingSamples), pending |-> pending]
    ELSE [output |-> out, pending |-> pending]

\* processBlock: if (pendingSamples > 0) { output.resize(pendingSamples, 0.0f);
\*                                         pendingLatencySamples_ -= pendingSamples; }
prependPad(out, pending, pendingSamples) ==
    IF pendingSamples > 0
    THEN [output |-> resize(out, pendingSamples), pending |-> pending - pendingSamples]
    ELSE [output |-> out, pending |-> pending]

\* the processed samples trimmed to make room for the leading pad
insertProcessed_trims(out, processed) ==
    out \o SubSeq(processed, 1, Len(processed) - Len(out))

\* processBlock: output.insert(output.end(), processed.begin(), processed.end())
insertProcessed(out, processed) == out \o processed

\* the trailing pad written without clearing the pending count
flushRemaining_keepsPending(out, pending) ==
    IF pending > 0
    THEN [output |-> out \o Zeros(pending), pending |-> pending]
    ELSE [output |-> out, pending |-> pending]

\* no trailing pad: what is left is carried to the next block
flushRemaining_carries(out, pending) ==
    [output |-> out, pending |-> pending]

\* processBlock: if (pendingLatencySamples_ > 0) {
\*     output.resize(output.size() + pendingLatencySamples_, 0.0f);
\*     pendingLatencySamples_ = 0; }
flushRemaining(out, pending) ==
    IF pending > 0
    THEN [output |-> resize(out, Len(out) + pending), pending |-> 0]
    ELSE [output |-> out, pending |-> pending]

\* processBlock returning the size of the output vector
blockResult_samples(produced, out) == Len(out)

\* processBlock: return produced
blockResult(produced, out) == produced

\* LatencyCompensatedProcessor::processBlock after the engine has run: the output
\* vector, the pending count and the return value, with the number of zero samples
\* put before (lead) and after (trail) the processed samples
assembleBlock(out, pending, produced, processed, channelCount) ==
    LET out0           == clearOutput(out)
        pendingSamples == leadingPad(pending, produced, channelCount)
        s1             == prependPad(out0, pending, pendingSamples)
        out2           == insertProcessed(s1.output, processed)
        s3             == flushRemaining(out2, s1.pending)
    IN  [output  |-> s3.output,
         pending |-> s3.pending,
         ret     |-> blockResult(produced, s3.output),
         lead    |-> Len(s1.output) - Len(out0),
         trail   |-> Len(s3.output) - Len(out2)]

----------------------------------------------------------------------------
(* The RubberBand library, as far as the adapter sees it *)

\* the configurations (time ratio, pitch scale) a stretcher can be given here
EngineConfigs ==
    {<<c.tempoRatio, semitonesToRatio(c.pitchSemitones)>> : c \in Controls}

----------------------------------------------------------------------------
(* A LatencyCompensatedProcessor and its caller *)

NoUpdate == [none |-> TRUE]

\* LatencyCompensatedProcessor::LatencyCompensatedProcessor, for every build and
\* every pair of constructor arguments. With the RubberBand library only valid
\* arguments are tried: what the library does with others is not in the source.
Init ==
    /\ haveRubberband \in BOOLEAN
    /\ getLatency \in IF haveRubberband
                      THEN [EngineConfigs -> EngineLatencies]
                      ELSE {[c \in EngineConfigs |-> 0]}
    /\ \E sampleRate \in SampleRates, channelCount \in ChannelCounts :
          /\ haveRubberband => (sampleRate > 0 /\ channelCount >= 1)
          /\ processor_ = newTimeStretchPitchProcessor(sampleRate, channelCount,
                                                       DefaultParameters)
          /\ channelCount_ = channelCount
    /\ controls_ = DefaultControls
    /\ pendingLatencySamples_ = refreshPendingLatency(0, processor_, controls_)
    /\ call = [op |-> "construct"]
    /\ history = [updates      |-> 0,
                  blocks       |-> 0,
                  cumPad       |-> 0,
                  padSince     |-> 0,
                  primed       |-> pendingLatencySamples_,
                  drainCycles  |-> 0,
                  allSame      |-> TRUE,
                  total0       |-> totalLatencySamples(processor_, controls_),
                  totalStable  |-> TRUE]

\* a call of LatencyCompensatedProcessor::updateControls with `controls`
UpdateControlsWith(controls) ==
    LET u == updateControls(processor_, pendingLatencySamples_, controls)
    IN
        /\ history.updates < MaxUpdates
        /\ controls_' = u.controls
        /\ processor_' = u.processor
        /\ pendingLatencySamples_' = u.pending
        /\ call' = [op            |-> "updateControls",
                    controls      |-> controls,
                    pendingBefore |-> pendingLatencySamples_,
                    previous      |-> IF history.updates > 0 /\ controls = controls_
                                      THEN [pending |-> history.primed]
                                      ELSE NoUpdate]
        /\ history' = [history EXCEPT
               !.updates     = @ + 1,
               !.blocks      = 0,
               !.padSince    = 0,
               !.primed      = pendingLatencySamples_',
               !.allSame     = @ /\ (history.updates = 0 \/ controls = controls_),
               !.totalStable = @ /\ totalLatencySamples(processor_', controls_')
                                      = history.total0]
        /\ UNCHANGED <<haveRubberband, getLatency, channelCount_>>

\* LatencyCompensatedProcessor::updateControls
UpdateControls ==
    \E controls \in Controls : UpdateControlsWith(controls)

\* LatencyCompensatedProcessor::processBlock, on an input block of `frames` frames
\* and the caller's vector `output`
ProcessBlock ==
    \E frames \in 0..MaxFrames :
    \E input \in InputBlocks(frames * channelCount_) :
    \E output \in CallerVectors :
    \E r \in process(processor_, input, frames) :
        LET b == assembleBlock(output, pendingLatencySamples_, r.ret, r.output,
                               channelCount_)
        IN  /\ processor_' = r.processor
            /\ pendingLatencySamples_' = b.pending
            /\ call' = [op             |-> "processBlock",
                        frames         |-> frames,
                        pendingOnEntry |-> pendingLatencySamples_,
                        firstBlock     |-> history.blocks = 0,
                        produced       |-> r.ret,
                        processed      |-> r.output,
                        lead           |-> b.lead,
                        trail          |-> b.trail,
                        output         |-> b.output,
                        ret            |-> b.ret]
            /\ history' = [history EXCEPT
                   !.blocks      = 1,
                   !.cumPad      = @ + b.lead + b.trail,
                   !.padSince    = @ + b.lead + b.trail,
                   !.drainCycles = IF history.blocks = 0 THEN @ + 1 ELSE @]
            /\ UNCHANGED <<haveRubberband, getLatency, controls_, channelCount_>>

\* a call of LatencyCompensatedProcessor::totalLatencySamples
TotalLatencySamples ==
    /\ call' = [op |-> "totalLatencySamples",
                ret |-> totalLatencySamples(processor_, controls_)]
    /\ UNCHANGED <<haveRubberband, getLatency, processor_, controls_,
                   pendingLatencySamples_, channelCount_, history>>

\* a call of LatencyCompensatedProcessor::currentControls
CurrentControls ==
    /\ call' = [op |-> "currentControls", ret |-> currentControls(controls_)]
    /\ UNCHANGED <<haveRubberband, getLatency, processor_, controls_,
                   pendingLatencySamples_, channelCount_, history>>

\* a call of LatencyCompensatedProcessor::controlEndpoints
ControlEndpoints ==
    /\ call' = [op |-> "controlEndpoints", ret |-> controlEndpoints(controls_)]
    /\ UNCHANGED <<haveRubberband, getLatency, processor_, controls_,
                   pendingLatencySamples_, channelCount_, history>>

Next ==
    \/ UpdateControls
    \/ ProcessBlock
    \/ TotalLatencySamples
    \/ CurrentControls
    \/ ControlEndpoints

Spec == Init /\ [][Next]_vars

----------------------------------------------------------------------------
(* A LatencyCompensatedProcessor whose caller validates nothing *)

\* Controls in and out of the ranges the endpoints give: manual latency 4096 (the
\* maximum), 4097 (beyond it) and -5, next to the values of Controls
ControlsAnyRange ==
    Controls \cup
    { [tempoRatio |-> 1000, pitchSemitones |-> 0,   manualLatencySamples |-> 4097],
      [tempoRatio |-> 3000, pitchSemitones |-> 0,   manualLatencySamples |-> -5],
      [tempoRatio |-> 1000, pitchSemitones |-> -13, manualLatencySamples |-> 4096] }

\* LatencyCompensatedProcessor::updateControls
UpdateControlsAnyRange ==
    \E controls \in ControlsAnyRange : UpdateControlsWith(controls)

NextControls ==
    \/ UpdateControlsAnyRange
    \/ CurrentControls
    \/ TotalLatencySamples

SpecControls == Init /\ [][NextControls]_vars

----------------------------------------------------------------------------
(* A stand-alone TimeStretchPitchProcessor and its caller *)

\* a second quality setting: every option differs from the default's
OtherQuality ==
    [formantPreservation |-> 700, transientSensitivity |-> 700, highQuality |-> FALSE]

\* sample rates in Hz given to the stand-alone processor: those of SampleRates,
\* one that is no multiple of 100, and 48 kHz
SampleRatesStandAlone == SampleRates \cup {150, 48000}

\* the Parameters values tried
Parameters ==
    { DefaultParameters,
      [tempoRatio |-> 3000, pitchSemitones |-> 0,   quality |-> OtherQuality],
      [tempoRatio |-> 1000, pitchSemitones |-> -13, quality |-> DefaultQuality],
      [tempoRatio |-> 1000, pitchSemitones |-> 0,   quality |-> OtherQuality] }

\* TimeStretchPitchProcessor::TimeStretchPitchProcessor, for every build, every pair
\* of constructor arguments and every `defaults`. The variables of the
\* LatencyCompensatedProcessor are not used.
InitTSP ==
    /\ haveRubberband \in BOOLEAN
    /\ getLatency \in IF haveRubberband
                      THEN [EngineConfigs -> EngineLatencies]
                      ELSE {[c \in EngineConfigs |-> 0]}
    /\ \E sampleRate \in SampleRatesStandAlone, channelCount \in ChannelCounts,
          defaults \in Parameters :
          /\ haveRubberband => (sampleRate > 0 /\ channelCount >= 1)
          /\ processor_ = newTimeStretchPitchProcessor(sampleRate, channelCount, defaults)
          /\ channelCount_ = channelCount
    /\ controls_ = DefaultControls
    /\ pendingLatencySamples_ = 0
    /\ call = [op |-> "construct"]
    /\ history = [updates |-> 0]

\* TimeStretchPitchProcessor::setParameters
SetParameters ==
    \E parameters \in Parameters :
        /\ processor_' = setParameters(processor_, parameters)
        /\ call' = [op |-> "setParameters", parameters |-> parameters]
        /\ UNCHANGED <<haveRubberband, getLatency, controls_, pendingLatencySamples_,
                       channelCount_, history>>

\* TimeStretchPitchProcessor::process
Process ==
    \E frames \in 0..MaxFrames :
    \E input \in InputBlocks(frames * processor_.channelCount_) :
    \E r \in process(processor_, input, frames) :
        /\ processor_' = r.processor
        /\ call' = [op        |-> "process",
                    frames    |-> frames,
                    input     |-> input,
                    fed       |-> r.fed,
                    retrieved |-> r.retrieved,
                    output    |-> r.output,
                    ret       |-> r.ret]
        /\ UNCHANGED <<haveRubberband, getLatency, controls_, pendingLatencySamples_,
                       channelCount_, history>>

\* TimeStretchPitchProcessor::reset
Reset ==
    /\ processor_' = reset(processor_)
    /\ call' = [op |-> "reset"]
    /\ UNCHANGED <<haveRubberband, getLatency, controls_, pendingLatencySamples_,
                   channelCount_, history>>

\* a call of TimeStretchPitchProcessor::getLatencySamples
GetLatencySamples ==
    /\ call' = [op |-> "getLatencySamples", ret |-> getLatencySamples(processor_)]
    /\ UNCHANGED <<haveRubberband, getLatency, processor_, controls_,
                   pendingLatencySamples_, channelCount_, history>>

\* a call of TimeStretchPitchProcessor::getParameters
GetParameters ==
    /\ call' = [op |-> "getParameters", ret |-> getParameters(processor_)]
    /\ UNCHANGED <<haveRubberband, getLatency, processor_, controls_,
                   pendingLatencySamples_, channelCount_, history>>

\* a call of TimeStretchPitchProcessor::describeEndpoints
DescribeEndpoints ==
    /\ call' = [op |-> "describeEndpoints", ret |-> describeEndpoints(processor_)]
    /\ UNCHANGED <<haveRubberband, getLatency, processor_, controls_,
                   pendingLatencySamples_, channelCount_, history>>

NextTSP ==
    \/ SetParameters
    \/ Process
    \/ Reset
    \/ GetLatencySamples
    \/ GetParameters
    \/ DescribeEndpoints

SpecTSP == InitTSP /\ [][NextTSP]_vars

----------------------------------------------------------------------------
(* Properties *)

\* the manual latency as it enters the latency sum: max(0, manualLatencySamples)
ClampedManual(controls) ==
    IF controls.manualLatencySamples < 0 THEN 0 ELSE controls.manualLatencySamples

\* C1: totalLatencySamples() is always the engine's latency plus max(0, manual
\* latency) of the stored Controls; right after construction and right after every
\* updateControls(c) the stored Controls are c and the pending count is that sum,
\* whatever the pending count was before the call.
C1_UpdateSetsPendingToTotal ==
    LET expected == getLatencySamples(processor_) + ClampedManual(controls_)
    IN  /\ totalLatencySamples(processor_, controls_) = expected
        /\ call.op = "construct" =>
              /\ controls_ = DefaultControls
              /\ pendingLatencySamples_ = expected
        /\ call.op = "updateControls" =>
              /\ controls_ = call.controls
              /\ pendingLatencySamples_ = expected

\* C1's case: an update with a negative manual latency has replaced a different
\* pending count by a positive one
C1_Witness ==
    /\ call.op = "updateControls"
    /\ call.controls.manualLatencySamples < 0
    /\ call.pendingBefore # pendingLatencySamples_
    /\ call.pendingBefore > 0
    /\ pendingLatencySamples_ > 0

\* C2: once a block has been processed since the last control update (or since
\* construction), the zero padding emitted since then (leading plus trailing, over
\* all those blocks) equals the pending count that update set; and every block
\* after the first one emits no padding.
C2_PaddingSinceUpdateEqualsPrimed ==
    /\ history.blocks = 1 => history.padSince = history.primed
    /\ (call.op = "processBlock" /\ ~call.firstBlock) =>
          (call.lead = 0 /\ call.trail = 0 /\ call.pendingOnEntry = 0)

\* C2's case: a later block, after a positive pending count has been emitted
C2_Witness ==
    /\ call.op = "processBlock"
    /\ ~call.firstBlock
    /\ history.primed > 0
    /\ call.produced > 0
    /\ history.updates > 0

\* C3: after every processBlock the pending count is 0, and the first block after
\* a control update (or construction) holds all the padding that was owed.
C3_PendingZeroAfterBlock ==
    call.op = "processBlock" =>
        /\ pendingLatencySamples_ = 0
        /\ call.lead + call.trail = call.pendingOnEntry

\* C3's case: the engine produced nothing while padding was owed
C3_Witness ==
    /\ call.op = "processBlock"
    /\ call.produced = 0
    /\ call.pendingOnEntry > 1
    /\ pendingLatencySamples_ = 0

\* C4: the output of processBlock is take = min(P, produced * channelCount) zeros,
\* then the engine's samples, all of them and in order, then P - take zeros, where
\* P is the pending count on entry; nothing of what the vector held before is left.
C4_OutputLayout ==
    call.op = "processBlock" =>
        LET P    == call.pendingOnEntry
            n    == call.produced * channelCount_
            take == IF P <= n THEN P ELSE n
        IN  /\ Len(call.processed) = n
            /\ Len(call.output) = n + P
            /\ \A i \in 1..Len(call.output) :
                  call.output[i] = IF i <= take THEN 0
                                   ELSE IF i <= take + n THEN call.processed[i - take]
                                   ELSE 0

\* C4's case: zeros before and after engine samples that are not silence
C4_Witness ==
    /\ call.op = "processBlock"
    /\ call.lead > 0
    /\ call.trail > 0
    /\ \E i \in 1..Len(call.processed) : call.processed[i] # 0

\* C5, as claimed: when every control update has carried the same Controls and
\* totalLatencySamples() has not changed since construction, then after any
\* processBlock the zero padding emitted since construction equals
\* totalLatencySamples().
C5_PaddingInjectedOnce ==
    (call.op = "processBlock" /\ history.allSame /\ history.totalStable) =>
        history.cumPad = totalLatencySamples(processor_, controls_)

\* C5, amended: when totalLatencySamples() has not changed since construction,
\* then after any processBlock the zero padding emitted since construction equals
\* totalLatencySamples() times the number of primings (construction, or a control
\* update) that a processBlock has followed: every such control update injects
\* the full padding once more.
C5_PaddingInjectedPerPriming ==
    (call.op = "processBlock" /\ history.totalStable) =>
        /\ history.drainCycles >= 1
        /\ history.cumPad =
               history.drainCycles * totalLatencySamples(processor_, controls_)

\* C5's case: the same Controls again during playback, and the padding has been
\* emitted a second time
C5_Witness ==
    /\ call.op = "processBlock"
    /\ history.allSame
    /\ history.totalStable
    /\ history.drainCycles = 2
    /\ history.cumPad > totalLatencySamples(processor_, controls_)

\* C6: an updateControls(c) that follows an updateControls(c) with the same c, with
\* nothing or only processBlock calls in between, leaves the pending count at the
\* value the earlier call left.
C6_UpdateIdempotentOnPending ==
    (call.op = "updateControls" /\ call.previous # NoUpdate) =>
        pendingLatencySamples_ = call.previous.pending

\* C6's case: the second updateControls(c) found the pending count drained by a
\* block and primed it again
C6_Witness ==
    /\ call.op = "updateControls"
    /\ call.previous # NoUpdate
    /\ call.pendingBefore = 0
    /\ pendingLatencySamples_ > 0

\* C6's other case: the second updateControls(c) came back to back
C6_WitnessBackToBack ==
    /\ call.op = "updateControls"
    /\ call.previous # NoUpdate
    /\ call.pendingBefore > 0
    /\ call.pendingBefore = pendingLatencySamples_

\* C7: processBlock returns the frame count the engine's process returned, not the
\* size of the output vector.
C7_ReturnsProduced ==
    call.op = "processBlock" => call.ret = call.produced

\* C7's case: the returned count is smaller than the output's frame count
C7_Witness ==
    /\ call.op = "processBlock"
    /\ channelCount_ >= 1
    /\ call.ret > 0
    /\ call.ret * channelCount_ < Len(call.output)

\* C8: in the passthrough build process returns `frames` and the output holds the
\* frames * channelCount samples of the input, one by one, whatever Parameters
\* are set.
C8_PassthroughCopies ==
    (call.op = "process" /\ ~haveRubberband) =>
        /\ call.ret = call.frames
        /\ Len(call.output) = call.frames * processor_.channelCount_
        /\ Len(call.input) = Len(call.output)
        /\ \A i \in 1..Len(call.input) : call.output[i] = call.input[i]

\* C8's case: a stereo block whose samples all differ, with Parameters other than
\* the default ones
C8_Witness ==
    /\ call.op = "process"
    /\ ~haveRubberband
    /\ processor_.channelCount_ = 2
    /\ call.frames = 2
    /\ call.output = <<1, 2, 3, 4>>
    /\ processor_.parameters_ # DefaultParameters

\* C9: a processor constructed with a channel count <= 0 or a sample rate of 0
\* never gets to run processBlock.
C9_InvalidConstructionNeverProcesses ==
    (processor_.channelCount_ <= 0 \/ processor_.sampleRate_ = 0) =>
        call.op # "processBlock"

\* C10: describeEndpoints() has the 4 entries tempo, pitch, formant, transient and
\* controlEndpoints() the 3 entries tempo, pitch, manualLatency; each defaultValue
\* is the stored value of its parameter or control, which is the value the last
\* setParameters or updateControls gave.
C10_EndpointsMirrorStoredValues ==
    LET d == describeEndpoints(processor_)
        e == controlEndpoints(controls_)
        P == getParameters(processor_)
    IN  /\ [i \in 1..Len(d) |-> d[i].id] = <<"tempo", "pitch", "formant", "transient">>
        /\ [i \in 1..Len(e) |-> e[i].id] = <<"tempo", "pitch", "manualLatency">>
        /\ [i \in 1..Len(d) |-> d[i].defaultValue] =
               <<P.tempoRatio, P.pitchSemitones,
                 P.quality.formantPreservation, P.quality.transientSensitivity>>
        /\ [i \in 1..Len(e) |-> e[i].defaultValue] =
               <<controls_.tempoRatio, controls_.pitchSemitones,
                 controls_.manualLatencySamples>>
        /\ call.op = "updateControls" =>
              /\ [i \in 1..Len(e) |-> e[i].defaultValue] =
                     <<call.controls.tempoRatio, call.controls.pitchSemitones,
                       call.controls.manualLatencySamples>>
              /\ [i \in 1..Len(d) |-> d[i].defaultValue] =
                     <<call.controls.tempoRatio, call.controls.pitchSemitones,
                       DefaultQuality.formantPreservation,
                       DefaultQuality.transientSensitivity>>
        /\ call.op = "setParameters" =>
              [i \in 1..Len(d) |-> d[i].defaultValue] =
                  <<call.parameters.tempoRatio, call.parameters.pitchSemitones,
                    call.parameters.quality.formantPreservation,
                    call.parameters.quality.transientSensitivity>>
        /\ call.op = "controlEndpoints" => call.ret = e
        /\ call.op = "describeEndpoints" => call.ret = d

\* C10's case: controlEndpoints() called after an update with values that are not
\* the defaults
C10_Witness ==
    /\ call.op = "controlEndpoints"
    /\ history.updates = 2
    /\ call.ret[1].defaultValue = 3000
    /\ call.ret[3].defaultValue = 3
    /\ describeEndpoints(processor_)[1].defaultValue = 3000

\* C11: a processBlock of 0 frames returns with an output of produced *
\* channelCount + P samples, P being the pending count on entry; in the
\* passthrough build it returns 0, the output is exactly P zeros (empty when P is
\* 0) and the pending count is 0 afterwards.
C11_ZeroFrameBlock ==
    (call.op = "processBlock" /\ call.frames = 0) =>
        /\ Len(call.output) = call.produced * channelCount_ + call.pendingOnEntry
        /\ ~haveRubberband =>
              /\ call.ret = 0
              /\ call.output = [i \in 1..call.pendingOnEntry |-> 0]
              /\ pendingLatencySamples_ = 0

\* C11's case: a block of 0 frames in the passthrough build while padding is owed
C11_Witness ==
    /\ call.op = "processBlock"
    /\ call.frames = 0
    /\ ~haveRubberband
    /\ call.pendingOnEntry > 0
    /\ Len(call.output) = call.pendingOnEntry

\* C11's other case: a block of 0 frames with nothing owed gives an empty output
C11_WitnessEmpty ==
    /\ call.op = "processBlock"
    /\ call.frames = 0
    /\ ~haveRubberband
    /\ call.pendingOnEntry = 0
    /\ call.output = <<>>

\* C12: updateControls(c) completes for every c, in range or not, and stores c as
\* it is: currentControls() is c, the manual latency unclamped, and the
\* processor's stored tempoRatio and pitchSemitones are c's; a negative manual
\* latency counts as 0 only in the latency sum.
C12_ControlsStoredUnchanged ==
    /\ call.op = "updateControls" =>
          /\ controls_ = call.controls
          /\ currentControls(controls_) = call.controls
          /\ getParameters(processor_).tempoRatio = call.controls.tempoRatio
          /\ getParameters(processor_).pitchSemitones = call.controls.pitchSemitones
          /\ totalLatencySamples(processor_, controls_) =
                 getLatencySamples(processor_) + ClampedManual(call.controls)
    /\ call.op = "currentControls" => call.ret = controls_
    /\ call.op = "totalLatencySamples" =>
          call.ret = getLatencySamples(processor_) + ClampedManual(controls_)

\* C12's case: currentControls() after an update whose tempo lies beyond the
\* slider's maximum and whose manual latency is negative
C12_Witness ==
    /\ call.op = "currentControls"
    /\ call.ret.tempoRatio = 3000
    /\ call.ret.manualLatencySamples = -5
    /\ getParameters(processor_).tempoRatio = 3000
    /\ totalLatencySamples(processor_, controls_) = getLatencySamples(processor_)

\* C12's other case: a manual latency beyond 4096 is stored and counted in full
C12_WitnessBeyondMaximum ==
    /\ call.op = "updateControls"
    /\ controls_.manualLatencySamples = 4097
    /\ pendingLatencySamples_ = getLatencySamples(processor_) + 4097

\* C13: in the passthrough build getLatencySamples() is floor(sampleRate / 100)
\* frames (10 ms; 480 at 48000 Hz) in every state, whatever setParameters, process
\* and reset calls have been made.
C13_PassthroughLatencyFixed ==
    ~haveRubberband =>
        LET l  == getLatencySamples(processor_)
            sr == processor_.sampleRate_
        IN  /\ 100 * l <= sr
            /\ sr < 100 * (l + 1)
            /\ sr = 48000 => l = 480
            /\ call.op = "getLatencySamples" => call.ret = l

\* C13's case: getLatencySamples() at 48 kHz after the tempo has been changed
C13_Witness ==
    /\ ~haveRubberband
    /\ call.op = "getLatencySamples"
    /\ processor_.sampleRate_ = 48000
    /\ call.ret = 480
    /\ getParameters(processor_).tempoRatio = 3000

\* the latency an engine reports once the tempo and pitch of `controls` are applied
LatencyOnceApplied(controls) ==
    IF haveRubberband
    THEN getLatency[<<controls.tempoRatio, semitonesToRatio(controls.pitchSemitones)>>]
    ELSE processor_.sampleRate_ \div 100

\* C14: right after updateControls(c) the pending count is the latency the engine
\* reports with c's tempo and pitch applied plus max(0, c's manual latency): the
\* engine is reconfigured before the pending count is recomputed, and neither the
\* previous configuration's latency nor the previous manual latency enters it.
C14_PendingFromNewConfiguration ==
    call.op = "updateControls" =>
        /\ controls_ = call.controls
        /\ pendingLatencySamples_ =
               LatencyOnceApplied(call.controls) + ClampedManual(call.controls)

\* C14's case: the first update of an engine whose latency under the new tempo
\* differs from its latency under the default one, with a new manual latency
C14_Witness ==
    /\ haveRubberband
    /\ call.op = "updateControls"
    /\ history.updates = 1
    /\ call.controls.tempoRatio = 3000
    /\ call.controls.manualLatencySamples = 3
    /\ getLatency[<<3000, 1000>>] # getLatency[<<1000, 1000>>]
    /\ pendingLatencySamples_ = getLatency[<<3000, 1000>>] + 3

\* C15: after every TimeStretchPitchProcessor::setParameters(p) the engine matches p
\* in full: its time ratio and pitch scale are those of p.tempoRatio and
\* p.pitchSemitones, and its processing options are those that p.quality selects.
C15_EngineMatchesParameters ==
    (haveRubberband /\ call.op = "setParameters") =>
        LET stretcher == processor_.processor_.stretcher
        IN  /\ getParameters(processor_) = call.parameters
            /\ stretcher.timeRatio = call.parameters.tempoRatio
            /\ stretcher.pitchScale = semitonesToRatio(call.parameters.pitchSemitones)
            /\ stretcher.options = adapterOptions(call.parameters)

\* C16: updateControls and processBlock never replace or reset the engine of a
\* LatencyCompensatedProcessor: the engine made at construction is the only one
\* ever made, the sample rate and channel count it was built with never change,
\* and an updateControls call leaves the engine's in-flight audio as it was.
C16_EnginePersists ==
    /\ processor_.engines = 1
    /\ [][ /\ processor_'.engines = processor_.engines
           /\ processor_'.sampleRate_ = processor_.sampleRate_
           /\ processor_'.channelCount_ = processor_.channelCount_
           /\ haveRubberband =>
                 LET before == processor_.processor_.stretcher
                     after  == processor_'.processor_.stretcher
                 IN  /\ after.sampleRate = before.sampleRate
                     /\ after.channels = before.channels
                     /\ after.options = before.options
                     /\ call'.op = "updateControls" => after.inFlight = before.inFlight
         ]_vars

\* C16's case: a second control update of an engine that holds in-flight audio
C16_Witness ==
    /\ haveRubberband
    /\ call.op = "updateControls"
    /\ history.updates = 2
    /\ controls_ # DefaultControls
    /\ processor_.engines = 1
    /\ processor_.processor_.stretcher.inFlight

\* C17: the real engine variant treats the block buffers as interleaved: the sample
\* handed to the stretcher as frame f of channel c is input[f*channelCount + c],
\* and frame f of channel c of what the stretcher produced is placed at
\* output[f*channelCount + c] (f and c counted from 0).
C17_AdapterInterleaved ==
    (haveRubberband /\ call.op = "process") =>
        LET n == processor_.channelCount_
        IN  /\ \A c \in 0..(n - 1), f \in 0..(call.frames - 1) :
                   call.fed[c + 1][f + 1] = call.input[f * n + c + 1]
            /\ \A c \in 0..(n - 1), f \in 0..(call.ret - 1) :
                   call.output[f * n + c + 1] = call.retrieved[c + 1][f + 1]

\* C18: the pending count is never below zero and never grows in processBlock: the
\* amount taken off it for the leading pad is at most the count on entry, the count
\* on return is at most the count on entry, and a step that raises the count is an
\* updateControls call.
C18_PendingNeverNegativeNorGrows ==
    /\ [](/\ pendingLatencySamples_ >= 0
          /\ call.op = "processBlock" =>
                /\ call.lead >= 0
                /\ call.lead <= call.pendingOnEntry
                /\ pendingLatencySamples_ <= call.pendingOnEntry)
    /\ [][pendingLatencySamples_' > pendingLatencySamples_ => call'.op = "updateControls"]_vars

\* C18's case: a block that produced more samples than were pending, so that the
\* cap at the pending count decides the size of the leading pad
C18_Witness ==
    /\ call.op = "processBlock"
    /\ call.pendingOnEntry > 0
    /\ call.produced * channelCount_ > call.pendingOnEntry
    /\ call.lead = call.pendingOnEntry
    /\ pendingLatencySamples_ = 0

\* C18's other case: an updateControls call that raised a drained pending count
C18_WitnessRaised ==
    /\ call.op = "updateControls"
    /\ call.pendingBefore = 0
    /\ pendingLatencySamples_ > 0

\* C19: every output block of processBlock holds a whole number of interleaved
\* frames: with a channel count of at least 1, the size of the output and the number
\* of zero samples put before the produced audio are multiples of the channel count.
C19_WholeFrames ==
    (call.op = "processBlock" /\ channelCount_ >= 1) =>
        /\ Len(call.output) % channelCount_ = 0
        /\ call.lead % channelCount_ = 0

\* C20: processBlock changes neither the stored Controls nor the value of
\* totalLatencySamples(), which reports the full latency also when the pending
\* count has drained to 0; the queries totalLatencySamples(), currentControls()
\* and controlEndpoints() change neither the pending count nor the stored Controls.
C20_FrameConditions ==
    [][ /\ call'.op = "processBlock" =>
              /\ controls_' = controls_
              /\ totalLatencySamples(processor_', controls_')
                     = totalLatencySamples(processor_, controls_)
        /\ call'.op \in {"totalLatencySamples", "currentControls", "controlEndpoints"} =>
              /\ pendingLatencySamples_' = pendingLatencySamples_
              /\ controls_' = controls_
              /\ processor_' = processor_
      ]_vars

\* C20's case: a block that drained a pending count primed by a control update,
\* the total latency still being reported in full
C20_Witness ==
    /\ call.op = "processBlock"
    /\ call.pendingOnEntry > 0
    /\ pendingLatencySamples_ = 0
    /\ controls_ # DefaultControls
    /\ totalLatencySamples(processor_, controls_) = call.pendingOnEntry

\* C20's other case: totalLatencySamples() asked between an update and its block
C20_WitnessQuery ==
    /\ call.op = "totalLatencySamples"
    /\ history.updates > 0
    /\ history.blocks = 0
    /\ pendingLatencySamples_ > 0
    /\ call.ret = pendingLatencySamples_

====
